---- MODULE Spec2Model ----
(***************************************************************************)
(* RansomwareTracker: the incremental victim store and the mirror ledger   *)
(* of src/lockbit_tracker.py, as state machines over the two persisted     *)
(* JSON files (lockbit_history.json, working_mirrors.json); one run of     *)
(* the tracker and of BaseScraper.run; the parser registry with the        *)
(* LockBit parsers; the OpenCTI feed; and two overlapping merges.          *)
(***************************************************************************)
EXTENDS Integers, Sequences, FiniteSets, TLC

VARIABLES
    history_file,      \* OUTPUT_DIR/HISTORY_FILE: [state, victims]
    last_batch,        \* `victims` argument of the latest update_victim_database call
    new_victims,       \* returned by the latest update_victim_database call
    updated_victims,   \* returned by the latest update_victim_database call
    observed,          \* number of incoming records merged so far
    clock,             \* wall clock (datetime.now()), one tick per run
    mirrors_file,      \* OUTPUT_DIR/MIRRORS_FILE: [state, data]
    mirrors,           \* scrape_lockbit_main_page: the list get_working_mirrors returned
    pc,                \* where the current run stands: idle, mirrors, details, done
    run,               \* the locals of the current run (main / BaseScraper.run)
    trace,             \* what the current run did so far: fetches, ledger records, pauses
    list_parsers,      \* ParserRegistry.list_parsers
    detail_parsers,    \* ParserRegistry.detail_parsers
    parsed,            \* the latest call of the registry: document, result, calls made
    corpus,            \* extract_and_export_iocs: the victims loaded from the history files
    feeds,             \* the OpenCTI feeds rendered so far, one per pass
    overlap,           \* overlapping update_victim_database calls: position and locals
    output_file        \* the run's output artifact (<group>_latest.json, OUTPUT_FILE)

storevars == <<history_file, last_batch, new_victims, updated_victims, observed, clock>>

ledgervars == <<mirrors_file, mirrors>>

runvars == <<pc, run, trace>>

parservars == <<list_parsers, detail_parsers, parsed>>

feedvars == <<corpus, feeds>>

\* what a step of the store, the ledger or a run leaves alone
restvars == <<parservars, feedvars, overlap>>

othervars == <<restvars, output_file>>

vars == <<storevars, ledgervars, runvars, parservars, feedvars, overlap, output_file>>

----------------------------------------------------------------------------
(* Bounds *)

MaxBatchLen == 2      \* records per incoming batch
MaxObserved == 4      \* incoming records over one behaviour
MaxAttempts == 5      \* recorded attempts per mirror

----------------------------------------------------------------------------
(* Values of a JSON field map.  A key that is missing from a dict is      *)
(* ABSENT; dict.get() of a missing key, and a stored null, is NONE.       *)

ABSENT == "<absent>"
NONE == "<None>"

Get(d, key) == IF d[key] = ABSENT THEN NONE ELSE d[key]

\* datetime.now().strftime("%Y-%m-%d %H:%M:%S UTC")
Stamp(t) == "T" \o ToString(t)

Max(S) == CHOOSE x \in S : \A y \in S : y <= x

IsPrefix(s, t) == Len(s) <= Len(t) /\ SubSeq(t, 1, Len(s)) = s

Range(s) == {s[i] : i \in 1..Len(s)}

----------------------------------------------------------------------------
(* Incoming records (parse_victim_block): domain, status, updated and the  *)
(* detail fields are each set only when their node is found.              *)

Victim(domain, status, deadline, updated, first_seen) ==
    [domain |-> domain, status |-> status, deadline |-> deadline,
     updated |-> updated, first_seen |-> first_seen, status_history |-> <<>>]

Domains == {"a.example", "b.example"}
Statuses == {"PUBLISHED", "PENDING"}

ListedVictims ==
    {Victim(d, s, ABSENT, ABSENT, ABSENT) : d \in Domains, s \in Statuses \cup {ABSENT}}

DetailedVictims ==
    {Victim("a.example", s, "2025-01-01", "u1", "T0") : s \in {"PUBLISHED", ABSENT}}

UnkeyedVictims ==
    {Victim("", "PUBLISHED", ABSENT, ABSENT, ABSENT),
     Victim(ABSENT, "PUBLISHED", ABSENT, ABSENT, ABSENT)}

IncomingVictims == ListedVictims \cup DetailedVictims \cup UnkeyedVictims

Batches(n) == [1..n -> IncomingVictims]

----------------------------------------------------------------------------
(* update_victim_database *)

\* variant: the history is never read back, every merge starts from []
LoadHistory_Empty(file) == <<>>

\* try: json.load(f) except (FileNotFoundError, json.JSONDecodeError): []
LoadHistory(file) == IF file.state = "ok" THEN file.victims ELSE <<>>

\* {victim['domain']: victim for victim in history if 'domain' in victim}:
\* the record a domain maps to, as its position in the loaded history
\* (0 when the domain is no key); a later record replaces an earlier one.
existing_victims(history, domain) ==
    LET S == {i \in 1..Len(history) :
                 history[i].domain # ABSENT /\ history[i].domain = domain}
    IN  IF S = {} THEN 0 ELSE Max(S)

\* lines 375-378: a new victim is stamped and appended
NewVictim(victim, now) == [victim EXCEPT !.first_seen = Stamp(now)]

\* lines 385-391: the status comparison and the status_history entry
StatusChanged(existing, victim) == Get(victim, "status") # Get(existing, "status")

\* variant: a status change replaces status_history by the one new entry
TrackStatus_Reset(existing, victim) ==
    IF StatusChanged(existing, victim)
    THEN [existing EXCEPT
            !.status_history = <<[status |-> Get(existing, "status"),
                                  timestamp |-> Get(existing, "updated")]>>,
            !.status = Get(victim, "status")]
    ELSE existing

\* variant: the entry is built after the status was overwritten
TrackStatus_AfterOverwrite(existing, victim) ==
    IF StatusChanged(existing, victim)
    THEN [existing EXCEPT
            !.status_history = Append(@, [status |-> Get(victim, "status"),
                                          timestamp |-> Get(existing, "updated")]),
            !.status = Get(victim, "status")]
    ELSE existing

TrackStatus(existing, victim) ==
    IF StatusChanged(existing, victim)
    THEN [existing EXCEPT
            !.status_history = Append(@, [status |-> Get(existing, "status"),
                                          timestamp |-> Get(existing, "updated")]),
            !.status = Get(victim, "status")]
    ELSE existing

\* variant: the overwrite loop does not skip first_seen
OverwriteFields_All(existing, victim) ==
    [existing EXCEPT
        !.domain = IF victim.domain # ABSENT THEN victim.domain ELSE @,
        !.status = IF victim.status # ABSENT THEN victim.status ELSE @,
        !.deadline = IF victim.deadline # ABSENT THEN victim.deadline ELSE @,
        !.updated = IF victim.updated # ABSENT THEN victim.updated ELSE @,
        !.first_seen = IF victim.first_seen # ABSENT THEN victim.first_seen ELSE @]

\* lines 396-398: every key the incoming dict carries, except first_seen and
\* status_history, overwrites the stored value
OverwriteFields(existing, victim) ==
    [existing EXCEPT
        !.domain = IF victim.domain # ABSENT THEN victim.domain ELSE @,
        !.status = IF victim.status # ABSENT THEN victim.status ELSE @,
        !.deadline = IF victim.deadline # ABSENT THEN victim.deadline ELSE @,
        !.updated = IF victim.updated # ABSENT THEN victim.updated ELSE @]

\* variant: the fields are overwritten before the status is compared
MergeVictim_OverwriteFirst(loaded, st, victim, now) ==
    LET domain == Get(victim, "domain") IN
    IF domain = NONE \/ domain = ""
    THEN st
    ELSE LET k == existing_victims(loaded, domain) IN
         IF k = 0
         THEN [history |-> Append(st.history, NewVictim(victim, now)),
               new_victims |-> Append(st.new_victims, domain),
               updated_victims |-> st.updated_victims]
         ELSE LET existing == OverwriteFields(st.history[k], victim) IN
              [history |-> [st.history EXCEPT ![k] = TrackStatus(existing, victim)],
               new_victims |-> st.new_victims,
               updated_victims |-> IF StatusChanged(existing, victim)
                                   THEN Append(st.updated_victims, domain)
                                   ELSE st.updated_victims]

\* lines 369-398, one iteration of the loop; `loaded` is the history as read
\* from the file, which existing_victims was built from
MergeVictim(loaded, st, victim, now) ==
    LET domain == Get(victim, "domain") IN
    IF domain = NONE \/ domain = ""
    THEN st
    ELSE LET k == existing_victims(loaded, domain) IN
         IF k = 0
         THEN [history |-> Append(st.history, NewVictim(victim, now)),
               new_victims |-> Append(st.new_victims, domain),
               updated_victims |-> st.updated_victims]
         ELSE LET existing == st.history[k] IN
              [history |-> [st.history EXCEPT
                               ![k] = OverwriteFields(TrackStatus(existing, victim), victim)],
               new_victims |-> st.new_victims,
               updated_victims |-> IF StatusChanged(existing, victim)
                                   THEN Append(st.updated_victims, domain)
                                   ELSE st.updated_victims]

RECURSIVE MergeLoop(_, _, _, _)
MergeLoop(loaded, victims, n, now) ==
    IF n = 0
    THEN [history |-> loaded, new_victims |-> <<>>, updated_victims |-> <<>>]
    ELSE MergeVictim(loaded, MergeLoop(loaded, victims, n - 1, now), victims[n], now)

\* the whole call: load, loop, json.dump, return
update_victim_database(file, victims, now) ==
    MergeLoop(LoadHistory(file), victims, Len(victims), now)


----------------------------------------------------------------------------
(* The mirror ledger.  A parsed ledger is the JSON object in key order: a  *)
(* sequence of entries.  success_rate is the float success / total, kept   *)
(* as the fraction it was computed from; two floats compare as their       *)
(* fractions do.                                                           *)

LOCKBIT_MIRRORS == <<"A.onion", "B.onion", "C.onion">>

ZeroRate == [num |-> 0, den |-> 1]

RateLess(r, s) == r.num * s.den < s.num * r.den
RateEqual(r, s) == r.num * s.den = s.num * r.den

\* {"success": 0, "failure": 0, "success_rate": 0.0}
SeedEntry(mirror) ==
    [mirror |-> mirror, success |-> 0, failure |-> 0, success_rate |-> ZeroRate,
     last_check |-> ABSENT]

\* {m: {...} for m in LOCKBIT_MIRRORS}
SeedLedger(list) == [i \in 1..Len(list) |-> SeedEntry(list[i])]

Keys(data) == {data[i].mirror : i \in 1..Len(data)}

\* variant: the descending order is got by reversing an ascending sort, so
\* entries of equal rate come out in reverse
InsertByRate_Reversed(sorted, e) ==
    LET pos == Cardinality({i \in 1..Len(sorted) :
                               RateLess(e.success_rate, sorted[i].success_rate)})
    IN  SubSeq(sorted, 1, pos) \o <<e>> \o SubSeq(sorted, pos + 1, Len(sorted))

\* sorted(..., key=success_rate, reverse=True): a stable sort, an entry is
\* placed after every entry whose rate is not smaller than its own
InsertByRate(sorted, e) ==
    LET pos == Cardinality({i \in 1..Len(sorted) :
                               ~RateLess(sorted[i].success_rate, e.success_rate)})
    IN  SubSeq(sorted, 1, pos) \o <<e>> \o SubSeq(sorted, pos + 1, Len(sorted))

RECURSIVE SortedByRate(_, _)
SortedByRate(data, n) ==
    IF n = 0 THEN <<>> ELSE InsertByRate(SortedByRate(data, n - 1), data[n])

get_working_mirrors(file) ==
    IF file.state = "ok"
    THEN LET working_mirrors == SortedByRate(file.data, Len(file.data))
         IN  [i \in 1..Len(working_mirrors) |-> working_mirrors[i].mirror]
    ELSE LOCKBIT_MIRRORS

\* variant: the rate is recomputed only when the attempt succeeded
RecordAttempt_RateOnSuccess(entry, success, now) ==
    LET counted == IF success
                   THEN [entry EXCEPT !.success = @ + 1]
                   ELSE [entry EXCEPT !.failure = @ + 1]
        total == counted.success + counted.failure
        rated == IF success
                 THEN [counted EXCEPT !.success_rate = [num |-> counted.success, den |-> total]]
                 ELSE counted
    IN  [rated EXCEPT !.last_check = Stamp(now)]

\* lines 113-124: count the attempt, recompute the rate, stamp last_check
RecordAttempt(entry, success, now) ==
    LET counted == IF success
                   THEN [entry EXCEPT !.success = @ + 1]
                   ELSE [entry EXCEPT !.failure = @ + 1]
        total == counted.success + counted.failure
        rated == IF total > 0
                 THEN [counted EXCEPT !.success_rate = [num |-> counted.success, den |-> total]]
                 ELSE counted
    IN  [rated EXCEPT !.last_check = Stamp(now)]

\* variant: an unusable ledger is replaced by an empty one, not by the
\* seeded default list
update_mirror_stats_Unseeded(file, mirror, success, now) ==
    LET loaded == IF file.state = "ok" THEN file.data ELSE <<>>
        mirrors_data == IF mirror \in Keys(loaded)
                        THEN loaded
                        ELSE Append(loaded, SeedEntry(mirror))
        k == CHOOSE i \in 1..Len(mirrors_data) : mirrors_data[i].mirror = mirror
    IN  [state |-> "ok",
         data |-> [mirrors_data EXCEPT ![k] = RecordAttempt(@, success, now)]]

\* variant: the ledger that is written holds the recorded mirror only
update_mirror_stats_Sole(file, mirror, success, now) ==
    LET loaded == IF file.state = "ok" THEN file.data ELSE SeedLedger(LOCKBIT_MIRRORS)
        mirrors_data == IF mirror \in Keys(loaded)
                        THEN loaded
                        ELSE Append(loaded, SeedEntry(mirror))
        k == CHOOSE i \in 1..Len(mirrors_data) : mirrors_data[i].mirror = mirror
    IN  [state |-> "ok", data |-> <<RecordAttempt(mirrors_data[k], success, now)>>]

update_mirror_stats(file, mirror, success, now) ==
    LET loaded == IF file.state = "ok" THEN file.data ELSE SeedLedger(LOCKBIT_MIRRORS)
        mirrors_data == IF mirror \in Keys(loaded)
                        THEN loaded
                        ELSE Append(loaded, SeedEntry(mirror))
        k == CHOOSE i \in 1..Len(mirrors_data) : mirrors_data[i].mirror = mirror
    IN  [state |-> "ok",
         data |-> [mirrors_data EXCEPT ![k] = RecordAttempt(@, success, now)]]

\* attempts the ledger holds for a mirror
Attempts(file, mirror) ==
    IF file.state = "ok" /\ mirror \in Keys(file.data)
    THEN LET e == file.data[CHOOSE i \in 1..Len(file.data) : file.data[i].mirror = mirror]
         IN  e.success + e.failure
    ELSE 0

----------------------------------------------------------------------------
(* No run has started: main() / BaseScraper.run has not been entered.      *)

Idle(program) ==
    [program |-> program, incremental |-> FALSE, index |-> 0,
     successful_mirror |-> NONE, success |-> FALSE, all_victims |-> <<>>,
     to_process |-> <<>>, before |-> [state |-> "missing", victims |-> <<>>]]

\* ParserRegistry.__init__: no parser registered, no call made
NoCall == [op |-> "none", html_content |-> NONE, result |-> NONE, calls |-> <<>>]

NoParsers == list_parsers = <<>> /\ detail_parsers = <<>> /\ parsed = NoCall

\* no feed has been rendered
NoFeeds == corpus = <<>> /\ feeds = <<>>

\* no update_victim_database call is under way
NoOverlap == overlap = <<>>

\* what a run saves as its output artifact
Output(success, mirror, victims) ==
    [state |-> "ok", success |-> success, successful_mirror |-> mirror,
     victims |-> victims]

\* no output artifact has been written
NoOutput ==
    output_file = [state |-> "missing", success |-> FALSE, successful_mirror |-> NONE,
                   victims |-> <<>>]

NoRun(program) ==
    /\ pc = "idle" /\ run = Idle(program) /\ trace = <<>>
    /\ NoParsers
    /\ NoFeeds
    /\ NoOverlap
    /\ NoOutput

InitStore ==
    /\ history_file \in {[state |-> "missing", victims |-> <<>>],
                         [state |-> "unparsable", victims |-> <<>>]}
    /\ last_batch = <<>>
    /\ new_victims = <<>>
    /\ updated_victims = <<>>
    /\ observed = 0
    /\ clock = 1
    /\ mirrors_file = [state |-> "missing", data |-> <<>>]
    /\ mirrors = <<>>
    /\ NoRun("tracker")

\* main(), lines 552-554: one run merges its non-empty batch
Merge ==
    \E n \in 1..MaxBatchLen :
      /\ observed + n <= MaxObserved
      /\ \E victims \in Batches(n) :
        /\ LET r == update_victim_database(history_file, victims, clock) IN
            /\ history_file' = [state |-> "ok", victims |-> r.history]
            /\ new_victims' = r.new_victims
            /\ updated_victims' = r.updated_victims
        /\ last_batch' = victims
        /\ observed' = observed + Len(victims)
        /\ clock' = clock + 1
        /\ UNCHANGED <<mirrors_file, mirrors, runvars, othervars>>

NextStore == Merge

Spec == InitStore /\ [][NextStore]_vars

----------------------------------------------------------------------------
(* Properties of the store.  A step of Merge is a step that advances the   *)
(* clock; history_file is the history before it, history_file' after it.   *)

Stored == history_file.victims

Usable(domain) == domain # ABSENT /\ domain # NONE /\ domain # ""

Occurrences(victims, domain) ==
    Cardinality({i \in 1..Len(victims) : victims[i].domain = domain})

\* C1: merging the batch that was just merged a second time leaves the
\* history equal to the history after the first merge, reports no domain as
\* updated, and leaves the length of every status_history unchanged.
MergeIdempotent ==
    [][(clock > 1 /\ clock' = clock + 1 /\ last_batch' = last_batch)
        => /\ history_file' = history_file
           /\ updated_victims' = <<>>
           /\ \A k \in 1..Len(Stored) :
                 /\ k <= Len(Stored')
                 /\ Len(Stored'[k].status_history) = Len(Stored[k].status_history)]_vars

\* C2: a field (status, deadline, updated, first_seen) that the incoming
\* record of a stored domain does not carry keeps its stored value over the
\* merge (stated for a domain the batch names once).
FieldWiseMerge ==
    [][clock' = clock + 1
        => \A i \in 1..Len(last_batch') :
              LET victim == last_batch'[i]
                  k == existing_victims(LoadHistory(history_file), victim.domain)
              IN  (Usable(victim.domain) /\ k > 0
                   /\ Occurrences(last_batch', victim.domain) = 1)
                  => \A f \in {"status", "deadline", "updated", "first_seen"} :
                        victim[f] = ABSENT => Stored'[k][f] = Stored[k][f]]_vars

\* The state of the merge loop before and after the i-th incoming record;
\* after the last record it is what the call persisted and returned.
LoopBefore(i) == MergeLoop(LoadHistory(history_file), last_batch', i - 1, clock)

LoopAfter(i) ==
    IF i = Len(last_batch')
    THEN [history |-> Stored', new_victims |-> new_victims',
          updated_victims |-> updated_victims']
    ELSE MergeLoop(LoadHistory(history_file), last_batch', i, clock)

OthersKeepStatusHistory(before, after, k) ==
    \A j \in 1..Len(before.history) :
        j # k => after.history[j].status_history = before.history[j].status_history

Classified(before, after, victim, k, now) ==
    IF k = 0
    THEN /\ after.history = Append(before.history, after.history[Len(after.history)])
         /\ after.history[Len(after.history)].domain = victim.domain
         /\ after.history[Len(after.history)].first_seen = Stamp(now)
         /\ after.new_victims = Append(before.new_victims, victim.domain)
         /\ after.updated_victims = before.updated_victims
    ELSE IF Get(victim, "status") # Get(before.history[k], "status")
    THEN /\ after.updated_victims = Append(before.updated_victims, victim.domain)
         /\ after.new_victims = before.new_victims
         /\ Len(after.history) = Len(before.history)
         /\ Len(after.history[k].status_history) = Len(before.history[k].status_history) + 1
         /\ OthersKeepStatusHistory(before, after, k)
    ELSE /\ after.updated_victims = before.updated_victims
         /\ after.new_victims = before.new_victims
         /\ Len(after.history) = Len(before.history)
         /\ OthersKeepStatusHistory(before, after, 0)

\* C3: in one merge, an incoming record whose domain is absent from the
\* loaded history is appended with first_seen stamped and reported as new;
\* one whose status differs from the status its stored record holds when it
\* is processed is reported as updated and appends exactly one
\* status_history entry to that record; one whose status equals it is
\* reported neither as new nor as updated and appends nothing.
NewUpdatedClassification ==
    [][clock' = clock + 1
        => \A i \in 1..Len(last_batch') :
              Usable(last_batch'[i].domain)
              => Classified(LoopBefore(i), LoopAfter(i), last_batch'[i],
                            existing_victims(LoadHistory(history_file), last_batch'[i].domain),
                            clock)]_vars

\* the latest merge appended a new domain and reported a status change of a stored one
WitnessNewAndUpdated ==
    /\ new_victims = <<"b.example">>
    /\ updated_victims = <<"a.example">>
    /\ \E k \in 1..Len(Stored) :
          Stored[k].domain = "a.example" /\ Len(Stored[k].status_history) = 1

\* C4: over every merge each stored record stays at its position and its
\* status_history before the merge is a prefix of its status_history after.
StatusHistoryMonotonic ==
    [][\A k \in 1..Len(Stored) :
          /\ k <= Len(Stored')
          /\ Stored'[k].domain = Stored[k].domain
          /\ IsPrefix(Stored[k].status_history, Stored'[k].status_history)]_vars

\* the latest merge appended one entry to a status_history that already held one
WitnessHistoryGrewTwice ==
    /\ Len(updated_victims) = 1
    /\ \E k \in 1..Len(Stored) :
          Stored[k].domain = updated_victims[1] /\ Len(Stored[k].status_history) >= 2

\* C5: a record created by a merge carries the time of that merge as
\* first_seen, and no later merge changes the first_seen of a stored record.
FirstSeenWriteOnce ==
    [][clock' = clock + 1
        => /\ \A k \in 1..Len(Stored) :
                 k <= Len(Stored') /\ Stored'[k].first_seen = Stored[k].first_seen
           /\ \A k \in (Len(Stored) + 1)..Len(Stored') :
                 Stored'[k].first_seen = Stamp(clock)]_vars

\* a record created by the first merge was merged again, later, with an
\* incoming record that carries a first_seen of its own
WitnessFirstSeenKept ==
    /\ clock >= 3
    /\ \E k \in 1..Len(Stored) : \E i \in 1..Len(last_batch) :
          /\ Stored[k].first_seen = Stamp(1)
          /\ last_batch[i].domain = Stored[k].domain
          /\ last_batch[i].first_seen # ABSENT

\* C6: every record of the persisted history has a non-empty domain and no
\* two records have the same domain.
StoreKeyInvariant ==
    /\ \A k \in 1..Len(Stored) : Usable(Stored[k].domain)
    /\ \A j, k \in 1..Len(Stored) : j # k => Stored[j].domain # Stored[k].domain

\* C7: the domains of the history before a merge are all in the history
\* after it.
RecordsNeverDeleted ==
    [][{Stored[k].domain : k \in 1..Len(Stored)}
         \subseteq {Stored'[k].domain : k \in 1..Len(Stored')}]_vars

\* a domain stored by an earlier merge outlived a merge whose batch omits it
WitnessOmittedDomainKept ==
    /\ clock >= 3
    /\ \E k \in 1..Len(Stored) :
          /\ Stored[k].first_seen # Stamp(clock - 1)
          /\ \A i \in 1..Len(last_batch) : last_batch[i].domain # Stored[k].domain

\* the entry a status change must append: the stored status and the stored
\* updated-timestamp
TransitionEntry(stored) ==
    [status |-> Get(stored, "status"), timestamp |-> Get(stored, "updated")]

\* C19: when an incoming record's status differs from the status stored for
\* its domain, merging it appends to status_history one entry that holds
\* the status and the updated-timestamp stored before the record was
\* merged, and leaves the stored status equal to the incoming status; the
\* comparison is with the last stored status only, so in every stored
\* record two adjacent entries differ in status and the last entry differs
\* from the stored status (statuses A, B, A give the entries A, B).
StatusTransitionEntry ==
    [][clock' = clock + 1
        => /\ \A i \in 1..Len(last_batch') :
                 LET victim == last_batch'[i]
                     k == existing_victims(LoadHistory(history_file), victim.domain)
                     before == LoopBefore(i).history
                     after == LoopAfter(i).history
                 IN  (Usable(victim.domain) /\ k > 0
                      /\ Get(victim, "status") # Get(before[k], "status"))
                     => /\ after[k].status_history
                             = Append(before[k].status_history, TransitionEntry(before[k]))
                        /\ Get(after[k], "status") = Get(victim, "status")
           /\ \A k \in 1..Len(Stored') :
                 LET h == Stored'[k].status_history IN
                 /\ \A n \in 1..(Len(h) - 1) : h[n].status # h[n + 1].status
                 /\ Len(h) > 0 => h[Len(h)].status # Get(Stored'[k], "status")]_vars

\* a.example was observed as PUBLISHED, then PENDING, then PUBLISHED again
WitnessStatusCameBack ==
    \E k \in 1..Len(Stored) :
        /\ Stored[k].domain = "a.example"
        /\ Stored[k].status = "PUBLISHED"
        /\ Len(Stored[k].status_history) = 2
        /\ Stored[k].status_history[1].status = "PUBLISHED"
        /\ Stored[k].status_history[2].status = "PENDING"
        /\ Stored[k].status_history[2].timestamp = "u1"

NoRepeat(list) == \A i, j \in 1..Len(list) : list[i] = list[j] => i = j

StoredDomains(history) == {history[i].domain : i \in 1..Len(history)} \ {ABSENT}

\* C26: in the result of one merge no domain is reported both as new and
\* as updated, every domain reported as new was absent from the history
\* before the merge, every domain reported as updated was present before
\* it, and no domain occurs more than once in either list.
NewUpdatedWellFormed ==
    [][clock' = clock + 1
        => /\ Range(new_victims') \cap Range(updated_victims') = {}
           /\ Range(new_victims') \cap StoredDomains(LoadHistory(history_file)) = {}
           /\ Range(updated_victims') \subseteq StoredDomains(LoadHistory(history_file))
           /\ NoRepeat(new_victims')
           /\ NoRepeat(updated_victims')]_vars

----------------------------------------------------------------------------
(* The ledger file a run finds: none, an unreadable one, or a ledger       *)
(* seeded from a default list that has since gained addresses.            *)

RECURSIVE Pick(_, _, _)
Pick(list, S, n) ==
    IF n = 0 THEN <<>>
    ELSE IF n \in S THEN Append(Pick(list, S, n - 1), list[n]) ELSE Pick(list, S, n - 1)

PersistedLedgers ==
    {[state |-> "missing", data |-> <<>>], [state |-> "unparsable", data |-> <<>>]}
    \cup {[state |-> "ok", data |-> SeedLedger(Pick(LOCKBIT_MIRRORS, S, Len(LOCKBIT_MIRRORS)))] :
             S \in SUBSET (1..Len(LOCKBIT_MIRRORS))}

InitMirrors ==
    /\ history_file = [state |-> "missing", victims |-> <<>>]
    /\ last_batch = <<>>
    /\ new_victims = <<>>
    /\ updated_victims = <<>>
    /\ observed = 0
    /\ clock = 1
    /\ mirrors_file \in PersistedLedgers
    /\ mirrors = <<>>
    /\ NoRun("tracker")

StoreUnchanged ==
    UNCHANGED <<storevars, runvars, othervars>>

\* scrape_lockbit_main_page, line 217
GetMirrors ==
    /\ mirrors' = get_working_mirrors(mirrors_file)
    /\ UNCHANGED mirrors_file
    /\ StoreUnchanged

\* lines 229-238 and 260-262: an attempt on a mirror of the list failed
RecordFailure ==
    \E i \in 1..Len(mirrors) :
        /\ Attempts(mirrors_file, mirrors[i]) < MaxAttempts
        /\ mirrors_file' = update_mirror_stats(mirrors_file, mirrors[i], FALSE, clock)
        /\ UNCHANGED mirrors
        /\ StoreUnchanged

\* line 241: an attempt on a mirror of the list succeeded
RecordSuccess ==
    \E i \in 1..Len(mirrors) :
        /\ Attempts(mirrors_file, mirrors[i]) < MaxAttempts
        /\ mirrors_file' = update_mirror_stats(mirrors_file, mirrors[i], TRUE, clock)
        /\ UNCHANGED mirrors
        /\ StoreUnchanged

NextMirrors == GetMirrors \/ RecordFailure \/ RecordSuccess

SpecMirrors == InitMirrors /\ [][NextMirrors]_vars

----------------------------------------------------------------------------
(* Properties of the mirror ledger *)

Entry(file, mirror) ==
    file.data[CHOOSE i \in 1..Len(file.data) : file.data[i].mirror = mirror]

\* the success_rate the ledger holds for an address, 0 for an untried one
StoredRate(file, mirror) ==
    IF file.state = "ok" /\ mirror \in Keys(file.data)
    THEN Entry(file, mirror).success_rate
    ELSE ZeroRate

DefaultIndex(mirror) ==
    IF mirror \in Range(LOCKBIT_MIRRORS)
    THEN CHOOSE i \in 1..Len(LOCKBIT_MIRRORS) : LOCKBIT_MIRRORS[i] = mirror
    ELSE Len(LOCKBIT_MIRRORS) + 1

\* C8: the list get_working_mirrors returns is sorted by non-increasing
\* success_rate, and two addresses of equal success_rate come in the order
\* of the default list.
MirrorOrdering ==
    LET order == get_working_mirrors(mirrors_file) IN
    \A i, j \in 1..Len(order) :
        i < j =>
            /\ ~RateLess(StoredRate(mirrors_file, order[i]), StoredRate(mirrors_file, order[j]))
            /\ RateEqual(StoredRate(mirrors_file, order[i]), StoredRate(mirrors_file, order[j]))
               => DefaultIndex(order[i]) < DefaultIndex(order[j])

\* A at 0.8, B at 0.2 and C untried, and the run got the list A, B, C
WitnessMirrorOrder ==
    /\ mirrors_file.state = "ok"
    /\ Keys(mirrors_file.data) = Range(LOCKBIT_MIRRORS)
    /\ Entry(mirrors_file, "A.onion").success = 4 /\ Entry(mirrors_file, "A.onion").failure = 1
    /\ Entry(mirrors_file, "B.onion").success = 1 /\ Entry(mirrors_file, "B.onion").failure = 4
    /\ Attempts(mirrors_file, "C.onion") = 0
    /\ mirrors = get_working_mirrors(mirrors_file)
    /\ mirrors = <<"A.onion", "B.onion", "C.onion">>

\* C9: the list a run gets from get_working_mirrors holds every address of
\* the union of the ledger's keys and the default list exactly once, and
\* nothing else.
AllKnownMirrorsReturned ==
    [][mirrors' # mirrors
        => LET known == (IF mirrors_file.state = "ok" THEN Keys(mirrors_file.data) ELSE {})
                        \cup Range(LOCKBIT_MIRRORS)
           IN  Range(mirrors') = known /\ Len(mirrors') = Cardinality(known)]_vars

\* C10: every ledger entry holds success_rate = success / (success + failure)
\* when it has an attempt, and 0 when it has none.
SuccessRateConsistent ==
    mirrors_file.state = "ok" =>
        \A i \in 1..Len(mirrors_file.data) :
            LET e == mirrors_file.data[i]
                total == e.success + e.failure
            IN  IF total > 0
                THEN e.success_rate.num * total = e.success * e.success_rate.den
                ELSE e.success_rate.num = 0

\* an entry with successes and failures next to an entry with no attempt
WitnessMixedRates ==
    /\ mirrors_file.state = "ok"
    /\ \E i, j \in 1..Len(mirrors_file.data) :
          /\ mirrors_file.data[i].success > 0 /\ mirrors_file.data[i].failure > 0
          /\ mirrors_file.data[j].success + mirrors_file.data[j].failure = 0

\* the entries a ledger file holds, none when it is missing or unparsable
Held(file) == IF file.state = "ok" THEN file.data ELSE <<>>

\* C27: one record call increases success + failure of the recorded address
\* by exactly 1, neither count of it decreases, and every other entry of
\* the ledger is still there with its success, failure and success_rate
\* unchanged.
LedgerFrame ==
    [][mirrors_file' # mirrors_file
        => \E mirror \in Keys(Held(mirrors_file')) :
              /\ Attempts(mirrors_file', mirror) = Attempts(mirrors_file, mirror) + 1
              /\ \A i \in 1..Len(Held(mirrors_file)) :
                     LET e == Held(mirrors_file)[i] IN
                     /\ e.mirror \in Keys(Held(mirrors_file'))
                     /\ Entry(mirrors_file', e.mirror).success >= e.success
                     /\ Entry(mirrors_file', e.mirror).failure >= e.failure
                     /\ e.mirror # mirror
                        => /\ Entry(mirrors_file', e.mirror).success = e.success
                           /\ Entry(mirrors_file', e.mirror).failure = e.failure
                           /\ Entry(mirrors_file', e.mirror).success_rate = e.success_rate]_vars

\* a ledger of three entries in which two addresses have been recorded,
\* one of them with successes and failures
WitnessLedgerGrew ==
    /\ mirrors_file.state = "ok"
    /\ Len(mirrors_file.data) = 3
    /\ \E i, j \in 1..3 :
          /\ i # j
          /\ mirrors_file.data[i].success >= 1 /\ mirrors_file.data[i].failure >= 1
          /\ mirrors_file.data[j].failure >= 1

----------------------------------------------------------------------------
(* One run against the group: lockbit_tracker.main with                    *)
(* scrape_lockbit_main_page (program "tracker"), and BaseScraper.run       *)
(* (program "scraper").  Both walk the ordered mirror list, classify each  *)
(* attempt in the ledger, take the listing of the first mirror that yields *)
(* victims, visit detail pages on that mirror and merge the batch.  The    *)
(* Database object BaseScraper.run calls is not part of the sources; its   *)
(* four operations follow the contracts of the specification.              *)

max_victims_per_group == 5

\* what a run does, in order
Fetched(mirror, page) == [op |-> "fetch", mirror |-> mirror, arg |-> page]
Recorded(mirror, success) ==
    [op |-> "record", mirror |-> mirror, arg |-> IF success THEN "success" ELSE "failure"]
Slept == [op |-> "sleep", mirror |-> NONE, arg |-> NONE]

\* variant: the detail URL is built on the first address of the default list
DetailPage_DefaultMirror(mirror, victim) == Fetched(LOCKBIT_MIRRORS[1], victim.detail_link)

\* url = f"http://{mirror}/{detail_url}", fetched by get_victim_details
DetailPage(mirror, victim) == Fetched(mirror, victim.detail_link)

\* an entry of the listing page: domain and status, no detail field yet, and
\* the href of its block when the block has one
Listed(domain, status, detail_link) ==
    [domain |-> domain, status |-> status, deadline |-> ABSENT, updated |-> ABSENT,
     first_seen |-> ABSENT, status_history |-> <<>>, detail_link |-> detail_link]

ListedEntries ==
    {Listed("a.example", s, "/post/a") : s \in Statuses}
    \cup {Listed("b.example", "PUBLISHED", l) : l \in {"/post/b", ABSENT}}

\* what a listing page parses to: no entry, or entries of distinct victims
Listings ==
    {<<>>} \cup {<<v>> : v \in ListedEntries}
    \cup {p \in [1..2 -> ListedEntries] : p[1].domain # p[2].domain}

\* victim_entries[:5] / victims[:max_victims]
MostRecent(victims) ==
    IF Len(victims) > max_victims_per_group
    THEN SubSeq(victims, 1, max_victims_per_group)
    ELSE victims

\* what a detail page gives: nothing ({}), or the fields its parser found
DetailResults == {"none", "parsed"}

\* victim.update(details)
WithDetails(victim, details) ==
    IF details = "parsed" THEN [victim EXCEPT !.deadline = "2025-01-01"] ELSE victim

Positions(victims) == [i \in 1..Len(victims) |-> i]

\* Database.get_working_mirrors(group_id, default_mirrors): every address of
\* the ledger and of the default list, by descending success_rate, equal
\* rates in default-list order
Database_get_working_mirrors(file, default_mirrors) ==
    LET data == IF file.state = "ok" THEN file.data ELSE <<>>
        stored(m) == IF m \in Keys(data)
                     THEN data[CHOOSE i \in 1..Len(data) : data[i].mirror = m]
                     ELSE SeedEntry(m)
        defaults == [i \in 1..Len(default_mirrors) |-> stored(default_mirrors[i])]
        others == SelectSeq(data, LAMBDA e : e.mirror \notin Range(default_mirrors))
        known == defaults \o others
        sorted == SortedByRate(known, Len(known))
    IN  [i \in 1..Len(sorted) |-> sorted[i].mirror]

\* Database.update_mirror_stats(group_id, mirror, success)
Database_update_mirror_stats(file, mirror, success, now) ==
    update_mirror_stats(file, mirror, success, now)

\* Database.update_victim_database(victims, group_id)
Database_update_victim_database(file, victims, now) ==
    update_victim_database(file, victims, now)

\* Database.get_new_victims(victims, group_id): the victims whose domain is
\* new to the store or whose listing status differs from the stored status,
\* as their positions in the listing
Database_get_new_victims(file, all_victims) ==
    LET history == LoadHistory(file) IN
    SelectSeq(Positions(all_victims),
              LAMBDA i : LET k == existing_victims(history, all_victims[i].domain) IN
                         \/ k = 0
                         \/ Get(all_victims[i], "status") # Get(history[k], "status"))

\* variant: the incremental flag is ignored, every victim is processed
victims_to_process_Full(incremental, file, all_victims) == Positions(all_victims)

\* BaseScraper.run, lines 137-148: the victims whose details are retrieved
victims_to_process(incremental, file, all_victims) ==
    IF incremental
    THEN Database_get_new_victims(file, all_victims)
    ELSE Positions(all_victims)

RunUnchangedStore == UNCHANGED <<storevars, othervars>>

Entered(incremental) ==
    [run EXCEPT !.incremental = incremental, !.index = 1,
                !.successful_mirror = NONE, !.success = FALSE, !.all_victims = <<>>,
                !.to_process = <<>>, !.before = history_file]

\* the history file a run finds: none, or the one an earlier run wrote
\* after it listed a.example as PUBLISHED and read its detail page
PersistedHistories ==
    {[state |-> "missing", victims |-> <<>>],
     [state |-> "ok",
      victims |-> update_victim_database(
                      [state |-> "missing", victims |-> <<>>],
                      <<WithDetails(Listed("a.example", "PUBLISHED", "/post/a"), "parsed")>>,
                      0).history]}

InitRun ==
    /\ history_file \in PersistedHistories
    /\ last_batch = <<>>
    /\ new_victims = <<>>
    /\ updated_victims = <<>>
    /\ observed = 0
    /\ clock = 1
    /\ mirrors_file = [state |-> "missing", data |-> <<>>]
    /\ mirrors = <<>>
    /\ \E program \in {"tracker", "scraper"} : NoRun(program)

(* lockbit_tracker.py *)

\* main, lines 516-531, and scrape_lockbit_main_page, line 217
MainStart ==
    /\ run.program = "tracker"
    /\ pc = "idle"
    /\ mirrors' = get_working_mirrors(mirrors_file)
    /\ run' = Entered(FALSE)
    /\ trace' = <<>>
    /\ pc' = "mirrors"
    /\ UNCHANGED mirrors_file
    /\ RunUnchangedStore

\* scrape_lockbit_main_page, lines 221-262: one turn of the mirror loop
MainTryMirror ==
    /\ run.program = "tracker"
    /\ pc = "mirrors"
    /\ run.index <= Len(mirrors)
    /\ LET mirror == mirrors[run.index]
           failed == update_mirror_stats(mirrors_file, mirror, FALSE, clock)
           worked == update_mirror_stats(mirrors_file, mirror, TRUE, clock)
       IN  \/ \* lines 229-238: no content, or content that is not LockBit's
              /\ mirrors_file' = failed
              /\ trace' = trace \o <<Fetched(mirror, "index"), Recorded(mirror, FALSE)>>
              /\ run' = [run EXCEPT !.index = @ + 1]
              /\ pc' = pc
           \/ \* lines 240-248 raise after line 241: the except clause of 260-262
              /\ mirrors_file' = update_mirror_stats(worked, mirror, FALSE, clock)
              /\ trace' = trace \o <<Fetched(mirror, "index"), Recorded(mirror, TRUE),
                                     Recorded(mirror, FALSE)>>
              /\ run' = [run EXCEPT !.index = @ + 1]
              /\ pc' = pc
           \/ \* lines 240-258: the page is parsed
              \E victim_entries \in Listings :
                 /\ mirrors_file' = worked
                 /\ trace' = trace \o <<Fetched(mirror, "index"), Recorded(mirror, TRUE)>>
                 /\ IF victim_entries = <<>>
                    THEN /\ run' = [run EXCEPT !.index = @ + 1]
                         /\ pc' = pc
                    ELSE /\ run' = [run EXCEPT
                                      !.all_victims = MostRecent(victim_entries),
                                      !.to_process = Positions(MostRecent(victim_entries)),
                                      !.successful_mirror = mirror]
                         /\ pc' = "details"
    /\ UNCHANGED mirrors
    /\ RunUnchangedStore

\* variant: main goes on to the merge with an empty batch
MainExhausted_Merges ==
    /\ run.program = "tracker"
    /\ pc = "mirrors"
    /\ run.index > Len(mirrors)
    /\ pc' = "done"
    /\ history_file' = [state |-> "ok",
                        victims |-> update_victim_database(history_file, <<>>, clock).history]
    /\ UNCHANGED <<last_batch, new_victims, updated_victims, observed, clock>>
    /\ UNCHANGED <<mirrors_file, mirrors, run, trace, othervars>>

\* lines 264-265 and 535-537: every mirror was tried, main returns
MainExhausted ==
    /\ run.program = "tracker"
    /\ pc = "mirrors"
    /\ run.index > Len(mirrors)
    /\ pc' = "done"
    /\ UNCHANGED <<mirrors_file, mirrors, run, trace>>
    /\ RunUnchangedStore

\* main, lines 544-550: the next victim of the batch
MainDetail ==
    /\ run.program = "tracker"
    /\ pc = "details"
    /\ run.to_process # <<>>
    /\ LET i == Head(run.to_process)
           victim == run.all_victims[i]
       IN  IF victim.detail_link = ABSENT
           THEN /\ run' = [run EXCEPT !.to_process = Tail(@)]
                /\ trace' = trace
           ELSE \E details \in DetailResults :
                   /\ run' = [run EXCEPT !.to_process = Tail(@),
                                         !.all_victims[i] = WithDetails(victim, details)]
                   /\ trace' = trace \o <<DetailPage(run.successful_mirror, victim), Slept>>
    /\ pc' = pc
    /\ UNCHANGED <<mirrors_file, mirrors>>
    /\ RunUnchangedStore

\* main, lines 552-581: the batch is merged into the history and the
\* output is saved
MainMerge ==
    /\ run.program = "tracker"
    /\ pc = "details"
    /\ run.to_process = <<>>
    /\ LET r == update_victim_database(history_file, run.all_victims, clock) IN
        /\ history_file' = [state |-> "ok", victims |-> r.history]
        /\ new_victims' = r.new_victims
        /\ updated_victims' = r.updated_victims
    /\ last_batch' = run.all_victims
    /\ observed' = observed + Len(run.all_victims)
    /\ clock' = clock + 1
    /\ run' = [run EXCEPT !.success = TRUE]
    /\ output_file' = Output(TRUE, run.successful_mirror, run.all_victims)
    /\ pc' = "done"
    /\ UNCHANGED <<mirrors_file, mirrors, trace, restvars>>

(* scrapers/base.py *)

\* BaseScraper.run, lines 101-114
RunStart ==
    /\ run.program = "scraper"
    /\ pc = "idle"
    /\ \E incremental \in BOOLEAN : run' = Entered(incremental)
    /\ mirrors' = Database_get_working_mirrors(mirrors_file, LOCKBIT_MIRRORS)
    /\ trace' = <<>>
    /\ pc' = "mirrors"
    /\ UNCHANGED mirrors_file
    /\ RunUnchangedStore

\* BaseScraper.run, lines 117-150 and 186-188: one turn of the mirror loop,
\* up to the choice of the victims to process
RunTryMirror ==
    /\ run.program = "scraper"
    /\ pc = "mirrors"
    /\ run.index <= Len(mirrors)
    /\ LET mirror == mirrors[run.index]
           failed == Database_update_mirror_stats(mirrors_file, mirror, FALSE, clock)
           worked == Database_update_mirror_stats(mirrors_file, mirror, TRUE, clock)
       IN  \/ \* lines 120-123: test_mirror is false
              /\ mirrors_file' = failed
              /\ trace' = trace \o <<Fetched(mirror, "index"), Recorded(mirror, FALSE)>>
              /\ run' = [run EXCEPT !.index = @ + 1]
              /\ pc' = pc
           \/ \* scrape_victims raises: lines 186-188
              /\ mirrors_file' = Database_update_mirror_stats(worked, mirror, FALSE, clock)
              /\ trace' = trace \o <<Fetched(mirror, "index"), Recorded(mirror, TRUE),
                                     Fetched(mirror, "list"), Recorded(mirror, FALSE)>>
              /\ run' = [run EXCEPT !.index = @ + 1, !.successful_mirror = mirror]
              /\ pc' = pc
           \/ \* lines 125-150
              \E victims \in Listings :
                 LET all_victims == MostRecent(victims)
                     to_process == victims_to_process(run.incremental, history_file,
                                                      all_victims)
                 IN  /\ mirrors_file' = worked
                     /\ trace' = trace \o <<Fetched(mirror, "index"), Recorded(mirror, TRUE),
                                            Fetched(mirror, "list")>>
                     /\ IF all_victims = <<>>
                        THEN /\ run' = [run EXCEPT !.index = @ + 1,
                                                   !.successful_mirror = mirror]
                             /\ pc' = pc
                        ELSE IF run.incremental /\ to_process = <<>>
                        THEN /\ run' = [run EXCEPT !.successful_mirror = mirror,
                                                   !.all_victims = all_victims,
                                                   !.to_process = <<>>,
                                                   !.success = TRUE]
                             /\ pc' = "done"
                        ELSE /\ run' = [run EXCEPT !.successful_mirror = mirror,
                                                   !.all_victims = all_victims,
                                                   !.to_process = to_process]
                             /\ pc' = "details"
    /\ UNCHANGED mirrors
    /\ RunUnchangedStore

\* variant: when the list ran out the loop starts over from its first mirror
RunExhausted_StartsOver ==
    /\ run.program = "scraper"
    /\ pc = "mirrors"
    /\ run.index > Len(mirrors)
    /\ Len(trace) < 4 * Len(mirrors)
    /\ run' = [run EXCEPT !.index = 1]
    /\ UNCHANGED <<mirrors_file, mirrors, pc, trace>>
    /\ RunUnchangedStore

\* BaseScraper.run, line 190 after the loop ran out of mirrors
RunExhausted ==
    /\ run.program = "scraper"
    /\ pc = "mirrors"
    /\ run.index > Len(mirrors)
    /\ pc' = "done"
    /\ UNCHANGED <<mirrors_file, mirrors, run, trace>>
    /\ RunUnchangedStore

\* BaseScraper.run, lines 151-159, with get_victim_details: the next victim
\* to process
RunDetail ==
    /\ run.program = "scraper"
    /\ pc = "details"
    /\ run.to_process # <<>>
    /\ LET i == Head(run.to_process)
           victim == run.all_victims[i]
           mirror == run.successful_mirror
       IN  IF victim.detail_link = ABSENT
           THEN /\ run' = [run EXCEPT !.to_process = Tail(@)]
                /\ trace' = Append(trace, Slept)
                /\ pc' = pc
                /\ UNCHANGED mirrors_file
           ELSE \/ \E details \in DetailResults :
                      /\ run' = [run EXCEPT !.to_process = Tail(@),
                                            !.all_victims[i] = WithDetails(victim, details)]
                      /\ trace' = trace \o <<DetailPage(mirror, victim), Slept>>
                      /\ pc' = pc
                      /\ UNCHANGED mirrors_file
                \/ \* the detail parser raises: lines 186-188
                   /\ mirrors_file' = Database_update_mirror_stats(mirrors_file, mirror,
                                                                   FALSE, clock)
                   /\ trace' = trace \o <<DetailPage(mirror, victim), Recorded(mirror, FALSE)>>
                   /\ run' = [run EXCEPT !.index = @ + 1]
                   /\ pc' = "mirrors"
    /\ UNCHANGED mirrors
    /\ RunUnchangedStore

\* BaseScraper.run, lines 161-184: the batch is merged, the run succeeded
RunMerge ==
    /\ run.program = "scraper"
    /\ pc = "details"
    /\ run.to_process = <<>>
    /\ LET r == Database_update_victim_database(history_file, run.all_victims, clock) IN
        /\ history_file' = [state |-> "ok", victims |-> r.history]
        /\ new_victims' = r.new_victims
        /\ updated_victims' = r.updated_victims
    /\ last_batch' = run.all_victims
    /\ observed' = observed + Len(run.all_victims)
    /\ clock' = clock + 1
    /\ run' = [run EXCEPT !.success = TRUE]
    /\ pc' = "done"
    /\ UNCHANGED <<mirrors_file, mirrors, trace, othervars>>

(* main.py *)

\* run_single_scraper, lines 32-35 (run_all_scrapers, lines 49-53): the
\* result run() returned is saved
SaveResult ==
    /\ run.program = "scraper"
    /\ pc = "done"
    /\ output_file' = Output(run.success, run.successful_mirror, run.all_victims)
    /\ pc' = "saved"
    /\ UNCHANGED <<storevars, ledgervars, run, trace, restvars>>

NextRun ==
    \/ MainStart \/ MainTryMirror \/ MainExhausted \/ MainDetail \/ MainMerge
    \/ RunStart \/ RunTryMirror \/ RunExhausted \/ RunDetail \/ RunMerge
    \/ SaveResult

SpecRun == InitRun /\ [][NextRun]_vars

\* Every page fetch returns, with content or with a failure, so a run that
\* can take a step takes one.
SpecRunFair == SpecRun /\ WF_vars(NextRun)

\* A run of lockbit_tracker.main that finds its two files missing or
\* unparsable (not JSON: json.load raises JSONDecodeError).
UnusableFiles == {"missing", "unparsable"}

InitRecover ==
    /\ history_file \in {[state |-> st, victims |-> <<>>] : st \in UnusableFiles}
    /\ last_batch = <<>>
    /\ new_victims = <<>>
    /\ updated_victims = <<>>
    /\ observed = 0
    /\ clock = 1
    /\ mirrors_file \in {[state |-> st, data |-> <<>>] : st \in UnusableFiles}
    /\ mirrors = <<>>
    /\ NoRun("tracker")

NextTracker == MainStart \/ MainTryMirror \/ MainExhausted \/ MainDetail \/ MainMerge

SpecRecover == InitRecover /\ [][NextTracker]_vars

----------------------------------------------------------------------------
(* Properties of a run *)

IsDetailFetch(e) == e.op = "fetch" /\ e.arg \notin {"index", "list"}

Exhausted == pc = "done" /\ run.index > Len(mirrors)

\* the i-th event records a success that no error turned into a failure
ClassifiedSuccess(i) ==
    /\ trace[i].op = "record" /\ trace[i].arg = "success"
    /\ \A k \in (i + 1)..Len(trace) : trace[k] # Recorded(trace[i].mirror, FALSE)

ExhaustionWritesNothing ==
    /\ Exhausted => ~run.success
    /\ (pc # "idle" /\ ~run.success) => history_file = run.before

\* an exhausted run over a non-empty history, in which a mirror had listed
\* victims and a detail page had been fetched before the error
WitnessExhaustedAfterDetails ==
    /\ Exhausted
    /\ Len(LoadHistory(run.before)) > 0
    /\ \E j \in 1..Len(trace) : IsDetailFetch(trace[j])

\* ledger records and attempts (fetches of the mirror's index page) of a run
Records(mirror) == {i \in 1..Len(trace) : trace[i].op = "record" /\ trace[i].mirror = mirror}
AttemptsMade(mirror) == {i \in 1..Len(trace) : trace[i] = Fetched(mirror, "index")}

\* C18: every attempt of a run on a mirror is recorded in the ledger exactly
\* once: a mirror has as many ledger records in the run as attempts, and
\* its success and failure counts grew by that many in total.
AttemptRecordedOnce ==
    pc # "idle" =>
        \A i \in 1..Len(mirrors) :
            /\ Cardinality(Records(mirrors[i])) = Cardinality(AttemptsMade(mirrors[i]))
            /\ Attempts(mirrors_file, mirrors[i]) = Cardinality(AttemptsMade(mirrors[i]))

\* the domains of the batch whose detail page the successful mirror served
DetailFetched ==
    {run.all_victims[i].domain : i \in {j \in 1..Len(run.all_victims) :
        \E k \in 1..Len(trace) :
            trace[k] = Fetched(run.successful_mirror, run.all_victims[j].detail_link)}}

\* the observed victims that are new to the store the run found, or whose
\* listing status differs from the stored one
NewOrChanged ==
    {i \in 1..Len(run.all_victims) :
        LET k == existing_victims(LoadHistory(run.before), run.all_victims[i].domain) IN
        k = 0 \/ Get(run.all_victims[i], "status") # Get(LoadHistory(run.before)[k], "status")}

Selected == IF run.incremental THEN NewOrChanged ELSE 1..Len(run.all_victims)

Succeeded == pc = "done" /\ run.success /\ run.program = "scraper"

\* C20 as stated: in a successful run the domains whose detail page is
\* fetched are, in incremental mode, exactly the observed domains that are
\* new or whose listing status differs from the stored status, and in full
\* mode every observed domain.
IncrementalityPolicy ==
    Succeeded => DetailFetched = {run.all_victims[i].domain : i \in Selected}

\* C20, amended: the domains whose detail page is fetched are exactly the
\* selected domains (new or status-changed in incremental mode, all in full
\* mode) whose listing entry carries a detail link; an observed domain that
\* is stored with an unchanged status has no detail page fetched in
\* incremental mode.
IncrementalityPolicyLinked ==
    Succeeded =>
        /\ DetailFetched = {run.all_victims[i].domain :
                               i \in {j \in Selected : run.all_victims[j].detail_link # ABSENT}}
        /\ run.incremental
           => \A i \in 1..Len(run.all_victims) :
                 i \notin NewOrChanged => run.all_victims[i].domain \notin DetailFetched

\* an incremental run listed a stored, unchanged victim next to a new one
\* and fetched the detail page of the new one only
WitnessOnlyNewFetched ==
    /\ Succeeded
    /\ run.incremental
    /\ Len(LoadHistory(run.before)) = 1
    /\ Len(run.all_victims) = 2
    /\ run.all_victims[1].domain = "a.example"
    /\ run.all_victims[1].status = LoadHistory(run.before)[1].status
    /\ DetailFetched = {"b.example"}


Returned == pc \in {"done", "saved"} /\ run.program = "scraper"

\* C21: every incremental run that got a non-empty victim list from a
\* working mirror and returned success has invoked the merge exactly once,
\* with a batch that holds every observed domain.
CompleteBatchPerRun ==
    (Returned /\ run.incremental /\ run.success /\ run.all_victims # <<>>) =>
        /\ observed = Len(run.all_victims)
        /\ Len(last_batch) = Len(run.all_victims)
        /\ \A i \in 1..Len(run.all_victims) :
               last_batch[i].domain = run.all_victims[i].domain

\* two page fetches of the run with no page fetch between them
ConsecutiveFetches(i, j) ==
    /\ i < j
    /\ trace[i].op = "fetch" /\ trace[j].op = "fetch"
    /\ \A k \in (i + 1)..(j - 1) : trace[k].op # "fetch"

\* C22: between any two consecutive page fetches of a run the randomized
\* delay is performed at least once.
MandatoryPacing ==
    \A i, j \in 1..Len(trace) :
        ConsecutiveFetches(i, j) => \E k \in (i + 1)..(j - 1) : trace[k] = Slept

\* C23: when a run ended because every mirror failed or none yielded
\* victims, no output artifact is written for the group.
NoArtifactOnExhaustion ==
    (pc \in {"done", "saved"} /\ run.index > Len(mirrors) /\ ~run.success)
        => output_file.state = "missing"

\* C25: in the result a run returns, successful_mirror is set if and only
\* if success is true, and a successful run names the mirror whose listing
\* gave the batch.
RunResultConsistent ==
    Returned =>
        /\ run.successful_mirror # NONE <=> run.success
        /\ run.success =>
               /\ run.successful_mirror = mirrors[run.index]
               /\ \E i \in 1..Len(trace) :
                      trace[i] = Fetched(run.successful_mirror, "list")

\* the records of a batch that carry a domain
Keyed(victims) == SelectSeq(victims, LAMBDA v : v.domain # ABSENT /\ v.domain # "")

\* one step of a run, seen from an unusable ledger or history file
RecoveryStep ==
    /\ (pc = "idle" /\ pc' = "mirrors" /\ mirrors_file.state \in UnusableFiles) =>
          mirrors' = LOCKBIT_MIRRORS
    /\ (mirrors_file' # mirrors_file /\ mirrors_file.state \in UnusableFiles) =>
          /\ mirrors_file'.state = "ok"
          /\ [i \in 1..Len(mirrors_file'.data) |-> mirrors_file'.data[i].mirror]
                = LOCKBIT_MIRRORS
          /\ \A i \in 1..Len(mirrors_file'.data) :
                 LET e == mirrors_file'.data[i] IN
                 IF e.mirror = mirrors[run.index]
                 THEN e.success + e.failure
                         = Cardinality({k \in (Len(trace) + 1)..Len(trace') :
                                           /\ trace'[k].op = "record"
                                           /\ trace'[k].mirror = e.mirror})
                 ELSE e.success = 0 /\ e.failure = 0 /\ e.success_rate = ZeroRate
    /\ (history_file' # history_file /\ history_file.state \in UnusableFiles) =>
          /\ history_file'.state = "ok"
          /\ Len(history_file'.victims) = Len(Keyed(last_batch'))
          /\ \A i \in 1..Len(history_file'.victims) :
                 /\ history_file'.victims[i].domain = Keyed(last_batch')[i].domain
                 /\ history_file'.victims[i].first_seen = Stamp(clock)
                 /\ new_victims'[i] = Keyed(last_batch')[i].domain
          /\ Len(new_victims') = Len(Keyed(last_batch'))
          /\ updated_victims' = <<>>

\* C24: a missing or unparsable history file or ledger file is recovered
\* locally.  selectOrder over an unusable ledger returns the default list;
\* record over an unusable ledger leaves the default list in its order,
\* every entry at 0 successes / 0 failures except for the attempt recorded;
\* merge over an unusable history stores exactly the keyed records of the
\* batch, all reported as new; and a run that has not returned can always
\* take its next step.
RecoveredLocally ==
    /\ [][RecoveryStep]_vars
    /\ [](pc # "done" => ENABLED NextTracker)

\* a run over an unparsable history succeeded on its second mirror: the
\* ledger holds the default list with one failure, one success and an
\* untried address, the history holds the batch
WitnessRecovered ==
    /\ pc = "done" /\ run.success
    /\ run.before.state = "unparsable"
    /\ mirrors = LOCKBIT_MIRRORS
    /\ mirrors_file.state = "ok"
    /\ Entry(mirrors_file, "A.onion").failure = 1
    /\ Entry(mirrors_file, "B.onion").success = 1
    /\ Attempts(mirrors_file, "C.onion") = 0
    /\ Len(history_file.victims) = 2

\* the mirrors whose index page the run fetched, in the order of the fetches
Tried == SelectSeq(trace, LAMBDA e : e.op = "fetch" /\ e.arg = "index")

\* C28: the mirror loop attempts the addresses of the ordered list one
\* after the other, each at most once and none again after a failure; it
\* ends after at most as many attempts as there are addresses, with success
\* on the mirror attempted last or with every address attempted; and every
\* run ends.
BoundedMirrorTrial ==
    /\ [](pc # "idle" =>
            /\ Len(Tried) <= Len(mirrors)
            /\ \A k \in 1..Len(Tried) : Tried[k].mirror = mirrors[k]
            /\ \A i \in 1..Len(mirrors) : Cardinality(AttemptsMade(mirrors[i])) <= 1
            /\ pc \in {"done", "saved"} =>
                   \/ run.success /\ Len(Tried) = run.index
                   \/ ~run.success /\ Len(Tried) = Len(mirrors))
    /\ <>(pc \in {"done", "saved"})

\* a run that succeeded on the last mirror of the list after the two
\* before it had failed
WitnessLastMirrorWon ==
    /\ pc \in {"done", "saved"}
    /\ run.success
    /\ Len(Tried) = Len(mirrors)
    /\ Cardinality(Range(Tried)) = 3
    /\ \E i \in 1..Len(trace) : trace[i] = Recorded(mirrors[1], FALSE)

----------------------------------------------------------------------------
(* The parser registry (core/database.py, ParserRegistry) with the LockBit *)
(* parsers (scrapers/lockbit.py).  A document is what the selectors of the *)
(* parsers can tell apart; a text is a sequence of characters.             *)

MaxParsers == 2       \* parsers registered one by one in each list

PreviewLength == 200

Body(n) == [i \in 1..n |-> ToString(i % 10)]

Blanks(n) == [i \in 1..n |-> " "]

RECURSIVE LStrip(_)
LStrip(text) == IF text # <<>> /\ Head(text) = " " THEN LStrip(Tail(text)) ELSE text

RECURSIVE RStrip(_)
RStrip(text) ==
    IF text # <<>> /\ text[Len(text)] = " "
    THEN RStrip(SubSeq(text, 1, Len(text) - 1))
    ELSE text

\* str.strip()
Strip(text) == RStrip(LStrip(text))

\* variant: a text of exactly 200 characters is cut and dotted as well
Preview_FromLimit(text) ==
    IF Len(Strip(text)) >= PreviewLength
    THEN SubSeq(Strip(text), 1, PreviewLength) \o <<".", ".", ".">>
    ELSE Strip(text)

\* text.strip()[:200] + "..." if len(text.strip()) > 200 else text.strip()
Preview(text) ==
    IF Len(Strip(text)) > PreviewLength
    THEN SubSeq(Strip(text), 1, PreviewLength) \o <<".", ".", ".">>
    ELSE Strip(text)

\* a node that may be missing, and a key that may be missing, when its value
\* is a text: the empty sequence, or the sequence of the one text
NoText == <<>>
Text(text) == <<text>>

\* an a.post-block of a listing page: the text of its .post-title,
\* .post-timer-end and .post-block-text nodes, and its href
Block(title, timer, text, href) ==
    [title |-> title, timer |-> timer, text |-> text, href |-> href]

Document(blocks, desc, br, files, wrapper, deadline, dates) ==
    [empty |-> FALSE, blocks |-> blocks, desc |-> desc, br |-> br, files |-> files,
     wrapper |-> wrapper, deadline |-> deadline, dates |-> dates]

\* html_content is "" or None
EmptyDocument ==
    [empty |-> TRUE, blocks |-> <<>>, desc |-> "none", br |-> FALSE, files |-> FALSE,
     wrapper |-> FALSE, deadline |-> "none", dates |-> "none"]

DescriptionLengths ==
    {0, 1, PreviewLength - 1, PreviewLength, PreviewLength + 1, PreviewLength + 3,
     2 * PreviewLength}

Descriptions ==
    {Blanks(l) \o Body(n) \o Blanks(r) : l \in 0..1, r \in 0..1, n \in DescriptionLengths}

ListingBlocks ==
    {Block("a.example", "published", Text(text), "/post/a") : text \in Descriptions}
    \cup {Block("a.example", "published", NoText, "/post/a"),
          Block(ABSENT, "published", Text(Body(1)), "/post/x"),
          Block("b.example", ABSENT, NoText, ABSENT)}

ListingDocuments ==
    {Document(<<b>>, "none", FALSE, FALSE, FALSE, "none", "none") : b \in ListingBlocks}
    \cup {Document(<<Block(ABSENT, "published", Text(Body(1)), "/post/x"),
                     Block("b.example", ABSENT, Text(Body(PreviewLength)), ABSENT),
                     Block("a.example", "published", Text(Body(PreviewLength + 1)),
                           "/post/a")>>,
                   "none", FALSE, FALSE, FALSE, "none", "none")}

\* desc: no description node, one under .post-company-content, or one that
\* only .desc, .post-description, .post-text or div[class*="desc"] selects;
\* br: the node holds <br> tags; files: its text has a FILES: section with
\* an onion link; wrapper: a .post-wrapper node; deadline: none, a
\* .post-banner-p with "Deadline:", or a node only .deadline /
\* [class*="deadline"] select, with "Deadline:" (alt) or without (alt_plain);
\* dates: none, the -date-utc nodes, or nodes only .upload-date /
\* .update-date / [class*=...] select
DetailDocuments ==
    {Document(<<>>, desc, br, files, wrapper, deadline, dates) :
        desc \in {"none", "company", "alt"}, br \in BOOLEAN, files \in BOOLEAN,
        wrapper \in BOOLEAN, deadline \in {"none", "banner", "alt", "alt_plain"},
        dates \in {"none", "utc", "alt"}}
    \ {d \in [empty : {FALSE}, blocks : {<<>>}, desc : {"none"}, br : BOOLEAN,
              files : BOOLEAN, wrapper : BOOLEAN,
              deadline : {"none", "banner", "alt", "alt_plain"},
              dates : {"none", "utc", "alt"}] : d.br \/ d.files}

Documents == {EmptyDocument} \cup ListingDocuments \cup DetailDocuments

ListParsers == {"LockBit List Parser V1"}

DetailParsers ==
    {"LockBit Detail Parser V1", "LockBit Detail Parser V2", "LockBit Detail Parser V3",
     "LockBit Generic Detail Parser"}

\* HTMLParser.can_parse of each parser class
can_parse(parser, soup) ==
    CASE parser = "LockBit List Parser V1" -> Len(soup.blocks) > 0
      [] parser = "LockBit Detail Parser V1" -> soup.desc = "company"
      [] parser = "LockBit Detail Parser V2" -> soup.wrapper
      [] parser = "LockBit Detail Parser V3" -> soup.desc = "company" /\ soup.br
      [] parser = "LockBit Generic Detail Parser" -> TRUE

\* str.upper() of the timer texts
Upper(text) == IF text = "published" THEN "PUBLISHED" ELSE text

\* LockBitListParserV1.parse_victim_list, one entry
ListedVictim(entry) ==
    [domain |-> entry.title,
     status |-> IF entry.timer = ABSENT THEN ABSENT ELSE Upper(entry.timer),
     description_preview |-> IF entry.text = NoText THEN NoText
                             ELSE Text(Preview(entry.text[1])),
     detail_link |-> entry.href]

\* LockBitListParserV1.parse_victim_list: entries without a domain are dropped
LockBitListParserV1_parse_victim_list(soup) ==
    LET victims == [i \in 1..Len(soup.blocks) |-> ListedVictim(soup.blocks[i])]
    IN  SelectSeq(victims, LAMBDA victim : victim.domain # ABSENT)

Details(description_full, file_links, deadline, uploaded, updated) ==
    [description_full |-> description_full, file_links |-> file_links,
     deadline |-> deadline, uploaded |-> uploaded, updated |-> updated]

\* details = {}
EmptyDetails == Details(ABSENT, ABSENT, ABSENT, ABSENT, ABSENT)

OnionLink == "http://files.onion/a"

\* parse_structured_description: a URL of the FILES: section that is an
\* onion link is found by both regular expressions
StructuredFileLinks(soup) == IF soup.files THEN <<OnionLink, OnionLink>> ELSE ABSENT

\* the FILES: section handling of V3 and of the generic parser
FilesSectionLinks(soup) == IF soup.files THEN <<OnionLink>> ELSE ABSENT

\* the text of the description node: <br> tags become newlines, plain text
\* is stripped
DescriptionText(soup) == IF soup.br THEN "lines" ELSE "text"

\* LockBitDetailParserV1 / V2 .parse_victim_details
LockBitDetailParserV1_parse_victim_details(soup) ==
    Details(IF soup.desc = "company" THEN DescriptionText(soup) ELSE ABSENT,
            IF soup.desc = "company" THEN StructuredFileLinks(soup) ELSE ABSENT,
            IF soup.deadline = "banner" THEN "2025-01-01" ELSE ABSENT,
            IF soup.dates = "utc" THEN "up1" ELSE ABSENT,
            IF soup.dates = "utc" THEN "u1" ELSE ABSENT)

\* LockBitDetailParserV3.parse_victim_details
LockBitDetailParserV3_parse_victim_details(soup) ==
    Details(IF soup.desc = "company" THEN "lines" ELSE ABSENT,
            IF soup.desc = "company" THEN FilesSectionLinks(soup) ELSE ABSENT,
            IF soup.deadline = "banner" THEN "2025-01-01" ELSE ABSENT,
            IF soup.dates = "utc" THEN "up1" ELSE ABSENT,
            IF soup.dates = "utc" THEN "u1" ELSE ABSENT)

\* variant: only the first selector of each list is tried
GenericLockBitDetailParser_FirstSelectors(soup) ==
    LockBitDetailParserV3_parse_victim_details(soup)

\* GenericLockBitDetailParser.parse_victim_details
GenericLockBitDetailParser_parse_victim_details(soup) ==
    Details(IF soup.desc # "none" THEN DescriptionText(soup) ELSE ABSENT,
            IF soup.desc # "none" THEN FilesSectionLinks(soup) ELSE ABSENT,
            IF soup.deadline \in {"banner", "alt"} THEN "2025-01-01" ELSE ABSENT,
            IF soup.dates # "none" THEN "up1" ELSE ABSENT,
            IF soup.dates # "none" THEN "u1" ELSE ABSENT)

parse_victim_details(parser, soup) ==
    CASE parser = "LockBit Detail Parser V1" -> LockBitDetailParserV1_parse_victim_details(soup)
      [] parser = "LockBit Detail Parser V2" -> LockBitDetailParserV1_parse_victim_details(soup)
      [] parser = "LockBit Detail Parser V3" -> LockBitDetailParserV3_parse_victim_details(soup)
      [] parser = "LockBit Generic Detail Parser"
           -> GenericLockBitDetailParser_parse_victim_details(soup)

parse_victim_list(parser, soup) == LockBitListParserV1_parse_victim_list(soup)

CanParseCall(i) == [call |-> "can_parse", parser |-> i]
ParseCall(i) == [call |-> "parse", parser |-> i]

\* variant: the loop keeps the last parser that accepts
Dispatch_LastMatch(parsers, soup) ==
    LET accepting == {i \in 1..Len(parsers) : can_parse(parsers[i], soup)}
    IN  IF accepting = {} THEN 0 ELSE Max(accepting)

\* for parser in parsers: if parser.can_parse(soup): return ...
\* the position of the parser that returns, 0 when the loop ends
Dispatch(parsers, soup) ==
    LET accepting == {i \in 1..Len(parsers) : can_parse(parsers[i], soup)}
    IN  IF accepting = {} THEN 0 ELSE CHOOSE i \in accepting : \A j \in accepting : i <= j

\* the calls the loop makes up to the parser that returns
DispatchCalls(parsers, k) ==
    IF k = 0
    THEN [i \in 1..Len(parsers) |-> CanParseCall(i)]
    ELSE Append([i \in 1..k |-> CanParseCall(i)], ParseCall(k))

\* ParserRegistry.parse_victim_list
ParserRegistry_parse_victim_list(parsers, html_content) ==
    IF html_content.empty
    THEN [op |-> "list", html_content |-> html_content, result |-> <<>>, calls |-> <<>>]
    ELSE LET k == Dispatch(parsers, html_content) IN
         [op |-> "list", html_content |-> html_content,
          result |-> IF k = 0 THEN <<>> ELSE parse_victim_list(parsers[k], html_content),
          calls |-> DispatchCalls(parsers, k)]

\* ParserRegistry.parse_victim_details
ParserRegistry_parse_victim_details(parsers, html_content) ==
    IF html_content.empty
    THEN [op |-> "details", html_content |-> html_content, result |-> EmptyDetails,
          calls |-> <<>>]
    ELSE LET k == Dispatch(parsers, html_content) IN
         [op |-> "details", html_content |-> html_content,
          result |-> IF k = 0 THEN EmptyDetails
                     ELSE parse_victim_details(parsers[k], html_content),
          calls |-> DispatchCalls(parsers, k)]

NotParsers == UNCHANGED <<storevars, ledgervars, runvars, feedvars, overlap, output_file>>

InitParsers ==
    /\ history_file = [state |-> "missing", victims |-> <<>>]
    /\ last_batch = <<>>
    /\ new_victims = <<>>
    /\ updated_victims = <<>>
    /\ observed = 0
    /\ clock = 1
    /\ mirrors_file = [state |-> "missing", data |-> <<>>]
    /\ mirrors = <<>>
    /\ NoRun("scraper")

\* The registry is filled when the scraper is constructed, before its first
\* call; a behaviour follows the registry up to one call.

\* ParserRegistry.register_list_parser
RegisterListParser ==
    /\ parsed = NoCall
    /\ Len(list_parsers) < MaxParsers
    /\ \E parser \in ListParsers : list_parsers' = Append(list_parsers, parser)
    /\ UNCHANGED <<detail_parsers, parsed>>
    /\ NotParsers

\* ParserRegistry.register_detail_parser
RegisterDetailParser ==
    /\ parsed = NoCall
    /\ Len(detail_parsers) < MaxParsers
    /\ \E parser \in DetailParsers : detail_parsers' = Append(detail_parsers, parser)
    /\ UNCHANGED <<list_parsers, parsed>>
    /\ NotParsers

\* LockBitScraper.register_parsers, called by the constructor
RegisterParsers ==
    /\ parsed = NoCall
    /\ list_parsers = <<>> /\ detail_parsers = <<>>
    /\ list_parsers' = <<"LockBit List Parser V1">>
    /\ detail_parsers' = <<"LockBit Detail Parser V3", "LockBit Detail Parser V2",
                           "LockBit Detail Parser V1", "LockBit Generic Detail Parser">>
    /\ UNCHANGED parsed
    /\ NotParsers

ParseVictimList ==
    /\ parsed = NoCall
    /\ \E html_content \in Documents :
          parsed' = ParserRegistry_parse_victim_list(list_parsers, html_content)
    /\ UNCHANGED <<list_parsers, detail_parsers>>
    /\ NotParsers

ParseVictimDetails ==
    /\ parsed = NoCall
    /\ \E html_content \in Documents :
          parsed' = ParserRegistry_parse_victim_details(detail_parsers, html_content)
    /\ UNCHANGED <<list_parsers, detail_parsers>>
    /\ NotParsers

NextParsers ==
    \/ RegisterListParser \/ RegisterDetailParser \/ RegisterParsers
    \/ ParseVictimList \/ ParseVictimDetails

SpecParsers == InitParsers /\ [][NextParsers]_vars

----------------------------------------------------------------------------
(* Properties of the registry and of the LockBit parsers *)

Called(op) == parsed.op = op /\ ~parsed.html_content.empty

RegisteredFor(op) == IF op = "list" THEN list_parsers ELSE detail_parsers

Extraction(op, parser, soup) ==
    IF op = "list" THEN parse_victim_list(parser, soup) ELSE parse_victim_details(parser, soup)

NothingFound(op) == IF op = "list" THEN <<>> ELSE EmptyDetails

IsFirstAccepting(parsers, soup, k) ==
    /\ can_parse(parsers[k], soup)
    /\ \A j \in 1..(k - 1) : ~can_parse(parsers[j], soup)

\* C13: a call with a non-empty document returns the extraction of the
\* first registered parser whose predicate accepts the document, after
\* calling the predicates of the parsers up to that one and no predicate or
\* extraction of a later parser; when no predicate accepts, and when the
\* document is empty, it returns the empty list (parse_victim_list) or the
\* empty map (parse_victim_details).
RegistryFirstMatch ==
    parsed.op # "none" =>
        LET op == parsed.op
            parsers == RegisteredFor(op)
            soup == parsed.html_content
        IN  /\ \A k \in 1..Len(parsers) :
                  (~soup.empty /\ IsFirstAccepting(parsers, soup, k))
                  => /\ parsed.result = Extraction(op, parsers[k], soup)
                     /\ \A i \in 1..Len(parsed.calls) :
                           /\ parsed.calls[i].parser <= k
                           /\ parsed.calls[i].call = "parse" => parsed.calls[i].parser = k
                     /\ \A j \in 1..k : \E i \in 1..Len(parsed.calls) :
                           parsed.calls[i] = CanParseCall(j)
            /\ (soup.empty \/ \A k \in 1..Len(parsers) : ~can_parse(parsers[k], soup))
               => /\ parsed.result = NothingFound(op)
                  /\ \A i \in 1..Len(parsed.calls) : parsed.calls[i].call = "can_parse"

\* two registered detail parsers accept the document and extract different
\* maps from it; the call returned the map of the first
WitnessFirstOfTwoAccepting ==
    /\ Called("details")
    /\ Len(detail_parsers) = 2
    /\ can_parse(detail_parsers[1], parsed.html_content)
    /\ can_parse(detail_parsers[2], parsed.html_content)
    /\ parse_victim_details(detail_parsers[1], parsed.html_content)
       # parse_victim_details(detail_parsers[2], parsed.html_content)
    /\ parsed.result = parse_victim_details(detail_parsers[1], parsed.html_content)

\* the registry as LockBitScraper.register_parsers fills it
LockBitRegistry ==
    detail_parsers = <<"LockBit Detail Parser V3", "LockBit Detail Parser V2",
                       "LockBit Detail Parser V1", "LockBit Generic Detail Parser">>

\* the extraction of the first specific parser that accepts the document
SpecificExtraction(soup) ==
    IF can_parse("LockBit Detail Parser V3", soup)
    THEN parse_victim_details("LockBit Detail Parser V3", soup)
    ELSE IF can_parse("LockBit Detail Parser V2", soup)
    THEN parse_victim_details("LockBit Detail Parser V2", soup)
    ELSE parse_victim_details("LockBit Detail Parser V1", soup)

SpecificShape(soup) ==
    \E parser \in DetailParsers \ {"LockBit Generic Detail Parser"} : can_parse(parser, soup)

\* a selector of the generic parser selects a node of the document
GenericSelectorMatches(soup) ==
    soup.desc # "none" \/ soup.deadline # "none" \/ soup.dates # "none"

\* a selector of the generic parser selects a node it takes a field from: a
\* deadline node counts only when its text holds "Deadline:"
GenericSelectorYields(soup) ==
    soup.desc # "none" \/ soup.deadline \in {"banner", "alt"} \/ soup.dates # "none"

\* C14 as stated: with the LockBit registry, a document of a specific shape
\* gets the extraction of the first accepting specific parser; a document
\* that only selectors of the generic parser match gets the generic
\* parser's extraction, which is not the empty map.
DetailFallback ==
    (LockBitRegistry /\ Called("details")) =>
        LET soup == parsed.html_content IN
        /\ SpecificShape(soup) => parsed.result = SpecificExtraction(soup)
        /\ (~SpecificShape(soup) /\ GenericSelectorMatches(soup))
           => /\ parsed.result = parse_victim_details("LockBit Generic Detail Parser", soup)
              /\ parsed.result # EmptyDetails

\* C14, amended: as stated, where a document counts as matched by the
\* generic parser when one of its description or date selectors selects a
\* node, or one of its deadline selectors selects a node whose text holds
\* "Deadline:".
DetailFallbackYields ==
    (LockBitRegistry /\ Called("details")) =>
        LET soup == parsed.html_content IN
        /\ SpecificShape(soup) => parsed.result = SpecificExtraction(soup)
        /\ (~SpecificShape(soup) /\ GenericSelectorYields(soup))
           => /\ parsed.result = parse_victim_details("LockBit Generic Detail Parser", soup)
              /\ parsed.result # EmptyDetails

\* a description node that only an alternative selector of the generic
\* parser reaches, in a document of no specific shape
WitnessFallbackDescription ==
    /\ LockBitRegistry
    /\ Called("details")
    /\ parsed.html_content.desc = "alt"
    /\ ~parsed.html_content.wrapper
    /\ parsed.html_content.deadline = "none" /\ parsed.html_content.dates = "none"
    /\ parsed.result.description_full # ABSENT

\* the blocks of the listing that carry a title, in page order
Titled(soup) == SelectSeq(soup.blocks, LAMBDA entry : entry.title # ABSENT)

\* C15: for a listing description of length n after trimming, the stored
\* description_preview is the trimmed description when n <= 200, and its
\* first 200 characters followed by three dots, 203 characters in all, when
\* n > 200.
PreviewTruncation ==
    (Called("list") /\ \E k \in 1..Len(list_parsers) : can_parse(list_parsers[k], parsed.html_content))
    => LET entries == Titled(parsed.html_content) IN
       /\ Len(parsed.result) = Len(entries)
       /\ \A i \in 1..Len(entries) :
             IF entries[i].text = NoText
             THEN parsed.result[i].description_preview = NoText
             ELSE LET description == Strip(entries[i].text[1])
                      n == Len(description)
                      preview == parsed.result[i].description_preview[1]
                  IN  /\ n <= PreviewLength => preview = description
                      /\ n > PreviewLength
                         => /\ Len(preview) = PreviewLength + 3
                            /\ SubSeq(preview, 1, PreviewLength)
                               = SubSeq(description, 1, PreviewLength)
                            /\ SubSeq(preview, PreviewLength + 1, PreviewLength + 3)
                               = <<".", ".", ".">>

\* one listing with a description of 200 characters, kept as it is, and one
\* of 201 characters, cut to 200 and dotted
WitnessPreviewAtLimit ==
    /\ Called("list")
    /\ Len(parsed.result) = 2
    /\ Len(Titled(parsed.html_content)[1].text[1]) = PreviewLength
    /\ parsed.result[1].description_preview = Titled(parsed.html_content)[1].text
    /\ Len(Titled(parsed.html_content)[2].text[1]) = PreviewLength + 1
    /\ Len(parsed.result[2].description_preview[1]) = PreviewLength + 3

----------------------------------------------------------------------------
(* The OpenCTI feed (core/exporters.py).  extract_and_export_iocs loads    *)
(* the victim histories and renders them as STIX objects; each object id   *)
(* is the md5 digest of a key string, each timestamp is the time of the    *)
(* rendering.                                                              *)

MaxCorpus == 2        \* victims in the corpus
MaxRenders == 3       \* render passes over one corpus

FeedVictim(domain, group, first_seen, file_links) ==
    [domain |-> domain, group |-> group, first_seen |-> first_seen,
     file_links |-> file_links]

FileLinks == <<"http://x.onion/f1", "http://x.onion/f2">>

\* a record either went through the detail page (first_seen, no links kept:
\* victim.get('file_links') is None or []) or carries the links of its FILES section; parse_structured_description
\* keeps an onion URL twice when both of its patterns find it
FeedVictims ==
    {FeedVictim(d, g, ABSENT, FileLinks) : d \in Domains, g \in {"lockbit", "LockBit", ABSENT}}
    \cup {FeedVictim(d, g, "T0", <<>>) : d \in Domains, g \in {"lockbit", "LockBit", ABSENT}}
    \cup {FeedVictim("", "lockbit", "T0", <<>>),
          FeedVictim("b.example", "lockbit", "T0", <<FileLinks[1], FileLinks[1]>>)}

Corpora == UNION {[1..n -> FeedVictims] : n \in 0..MaxCorpus}

Reverse(s) == [i \in 1..Len(s) |-> s[Len(s) + 1 - i]]

\* str.capitalize(): first character upper case, the rest lower case
Capitalize(name) ==
    CASE name = "lockbit" -> "Lockbit"
      [] name = "LockBit" -> "Lockbit"
      [] name = "unknown" -> "Unknown"
      [] OTHER -> name

\* hashlib.md5(input_string.encode()).hexdigest(), cut 8-4-4-4-12: a
\* function of the string alone
hash_string(input_string) == "md5(" \o input_string \o ")"

\* datetime.datetime.now().strftime("%Y-%m-%dT%H:%M:%SZ")
IsoStamp(now) == ToString(now) \o "Z"

StixObject(type, id, created) ==
    [type |-> type, id |-> id, created |-> created, modified |-> created,
     relationship_type |-> ABSENT, source_ref |-> ABSENT, target_ref |-> ABSENT]

StixRelationship(id, relationship_type, source_ref, target_ref, now) ==
    [type |-> "relationship", id |-> id, created |-> IsoStamp(now),
     modified |-> IsoStamp(now), relationship_type |-> relationship_type,
     source_ref |-> source_ref, target_ref |-> target_ref]

\* variant: the actor id is taken from the group name and the time of creation
ThreatActorId_Stamped(group_name, now) ==
    "threat-actor--" \o hash_string(group_name \o IsoStamp(now))

\* line 151
ThreatActorId(group_name, now) == "threat-actor--" \o hash_string(group_name)

\* lines 150-188: the first victim of a group brings the actor, its malware
\* and the relationship between them
ThreatActorObjects(group_name, now) ==
    LET actor_id == ThreatActorId(group_name, now)
        malware_id == "malware--" \o hash_string(group_name \o "-malware")
    IN  <<StixObject("threat-actor", actor_id, IsoStamp(now)),
          StixObject("malware", malware_id, IsoStamp(now)),
          StixRelationship("relationship--" \o hash_string(group_name \o "-uses-malware"),
                           "uses", actor_id, malware_id, now)>>

\* lines 271-301: one indicator and one relationship per file link; the
\* relationship is keyed by the domain and the link's position, from 0
RECURSIVE FileLinkObjects(_, _, _, _)
FileLinkObjects(victim, victim_id, n, now) ==
    IF n = 0
    THEN <<>>
    ELSE LET link == victim.file_links[n]
             url_indicator_id == "indicator--" \o hash_string("url-" \o link)
         IN  FileLinkObjects(victim, victim_id, n - 1, now)
             \o <<StixObject("indicator", url_indicator_id, IsoStamp(now)),
                  StixRelationship(
                      "relationship--"
                          \o hash_string("url-indicates-" \o victim.domain \o ToString(n - 1)),
                      "indicates", url_indicator_id, victim_id, now)>>

\* lines 190-301: identity, targets, domain indicator, indicates, file links
VictimObjects(victim, group_name, now) ==
    LET victim_id == "identity--" \o hash_string(victim.domain)
        domain_indicator_id == "indicator--" \o hash_string("domain-" \o victim.domain)
    IN  <<[StixObject("identity", victim_id,
                      IF victim.first_seen = ABSENT THEN IsoStamp(now)
                      ELSE victim.first_seen)
              EXCEPT !.modified = IsoStamp(now)],
          StixRelationship(
              "relationship--" \o hash_string(group_name \o "-targets-" \o victim.domain),
              "targets", ThreatActorId(group_name, now), victim_id, now),
          StixObject("indicator", domain_indicator_id, IsoStamp(now)),
          StixRelationship("relationship--" \o hash_string("indicates-" \o victim.domain),
                           "indicates", domain_indicator_id, victim_id, now)>>
        \o (IF victim.file_links = <<>>
            THEN <<>>
            ELSE FileLinkObjects(victim, victim_id, Len(victim.file_links), now))

\* variant: the actor, its malware and their relationship are emitted for
\* every victim, not for the first victim of a group only
RECURSIVE FeedLoop_Unmemoized(_, _, _)
FeedLoop_Unmemoized(victims, n, now) ==
    IF n = 0
    THEN [stix_objects |-> <<>>, threat_actors |-> {}]
    ELSE LET st == FeedLoop_Unmemoized(victims, n - 1, now)
             victim == victims[n]
         IN  IF victim.domain = ABSENT \/ victim.domain = ""
             THEN st
             ELSE LET group_name ==
                          Capitalize(IF victim.group = ABSENT THEN "unknown"
                                     ELSE victim.group)
                  IN  [stix_objects |->
                           st.stix_objects
                           \o ThreatActorObjects(group_name, now)
                           \o VictimObjects(victim, group_name, now),
                       threat_actors |-> st.threat_actors \cup {group_name}]

\* lines 143-301, the loop: st is [stix_objects, threat_actors]
RECURSIVE FeedLoop(_, _, _)
FeedLoop(victims, n, now) ==
    IF n = 0
    THEN [stix_objects |-> <<>>, threat_actors |-> {}]
    ELSE LET st == FeedLoop(victims, n - 1, now)
             victim == victims[n]
         IN  IF victim.domain = ABSENT \/ victim.domain = ""
             THEN st
             ELSE LET group_name ==
                          Capitalize(IF victim.group = ABSENT THEN "unknown"
                                     ELSE victim.group)
                  IN  [stix_objects |->
                           st.stix_objects
                           \o (IF group_name \in st.threat_actors
                               THEN <<>>
                               ELSE ThreatActorObjects(group_name, now))
                           \o VictimObjects(victim, group_name, now),
                       threat_actors |-> st.threat_actors \cup {group_name}]

\* OpenCTIExporter.generate_feed
generate_feed(victims, now) == FeedLoop(victims, Len(victims), now).stix_objects

InitFeed ==
    /\ history_file = [state |-> "missing", victims |-> <<>>]
    /\ last_batch = <<>>
    /\ new_victims = <<>>
    /\ updated_victims = <<>>
    /\ observed = 0
    /\ clock = 1
    /\ mirrors_file = [state |-> "missing", data |-> <<>>]
    /\ mirrors = <<>>
    /\ pc = "idle" /\ run = Idle("scraper") /\ trace = <<>>
    /\ NoParsers
    /\ NoOverlap
    /\ NoOutput
    /\ corpus \in Corpora
    /\ feeds = <<>>

\* main.py extract_and_export_iocs, lines 105-106: one render pass.  The
\* victims are the corpus in the order the history files were read, groups
\* first to last or last to first; the wall clock has moved on since the
\* pass before.
Render ==
    /\ Len(feeds) < MaxRenders
    /\ \E victims \in {corpus, Reverse(corpus)} :
         feeds' = Append(feeds, [victims |-> victims, now |-> clock,
                                 objects |-> generate_feed(victims, clock)])
    /\ clock' = clock + 1
    /\ UNCHANGED <<history_file, last_batch, new_victims, updated_victims, observed,
                   ledgervars, runvars, parservars, corpus, overlap, output_file>>

NextFeed == Render

SpecFeed == InitFeed /\ [][NextFeed]_vars

\* what identifies an object to a consumer of the feed
Identifiers(object) ==
    <<object.type, object.id, object.relationship_type, object.source_ref,
      object.target_ref>>

IdentifierSet(feed) == {Identifiers(feed.objects[i]) : i \in 1..Len(feed.objects)}

\* C16: STIX identifier determinism.  Two render passes over the same
\* victims yield the same number of objects and, position by position, the
\* same id, source_ref and target_ref, whatever the times of the passes;
\* two passes over the same corpus in different orders yield the same
\* identifiers, each at the position its victim has in that order.
StixIdDeterminism ==
    \A p \in 1..Len(feeds) : \A q \in 1..Len(feeds) :
        /\ feeds[p].victims = feeds[q].victims =>
               /\ Len(feeds[p].objects) = Len(feeds[q].objects)
               /\ \A i \in 1..Len(feeds[p].objects) :
                      Identifiers(feeds[p].objects[i]) = Identifiers(feeds[q].objects[i])
        /\ IdentifierSet(feeds[p]) = IdentifierSet(feeds[q])

\* three passes at three times over two victims of two groups with file
\* links: the second repeats the order of the first, the third reverses it
WitnessRenderedTwice ==
    /\ Len(feeds) = 3
    /\ feeds[1].victims = feeds[2].victims
    /\ feeds[3].victims # feeds[1].victims
    /\ feeds[1].now # feeds[2].now
    /\ \E i \in 1..Len(feeds[1].objects) :
          /\ feeds[1].objects[i].created # feeds[2].objects[i].created
          /\ feeds[1].objects[i].id = feeds[2].objects[i].id
    /\ Cardinality({o \in Range(feeds[1].objects) : o.type = "threat-actor"}) = 2
    /\ \E i \in 1..Len(feeds[1].objects) :
          /\ feeds[1].objects[i].relationship_type = "indicates"
          /\ feeds[1].objects[i].source_ref = "indicator--" \o hash_string("url-" \o FileLinks[2])

\* C29: in the output of one render no two objects have the same id.
StixIdsUnique ==
    \A p \in 1..Len(feeds) :
        \A i, j \in 1..Len(feeds[p].objects) :
            feeds[p].objects[i].id = feeds[p].objects[j].id => i = j

\* the victims of a pass that are rendered, and the group name of a victim
Rendered(victims) == Keyed(victims)

GroupName(victim) ==
    Capitalize(IF victim.group = ABSENT THEN "unknown" ELSE victim.group)

OfType(objects, type) == {i \in 1..Len(objects) : objects[i].type = type}

Uses(objects) == {i \in OfType(objects, "relationship") : objects[i].relationship_type = "uses"}

\* C30: in the output of one render every source_ref and target_ref of a
\* relationship is the id of an object of the output; each group named by
\* a rendered victim has exactly one threat-actor, one malware and one
\* "uses" relationship between the two, and there are no others; and the
\* "targets" relationship of each rendered victim has the threat-actor of
\* the victim's group as its source and the victim's identity as its target.
StixReferentialIntegrity ==
    \A p \in 1..Len(feeds) :
        LET objects == feeds[p].objects
            ids == {objects[i].id : i \in 1..Len(objects)}
            victims == Rendered(feeds[p].victims)
            groups == {GroupName(victims[i]) : i \in 1..Len(victims)}
        IN  /\ \A i \in OfType(objects, "relationship") :
                   objects[i].source_ref \in ids /\ objects[i].target_ref \in ids
            /\ Cardinality(OfType(objects, "threat-actor")) = Cardinality(groups)
            /\ Cardinality(OfType(objects, "malware")) = Cardinality(groups)
            /\ Cardinality(Uses(objects)) = Cardinality(groups)
            /\ \A g \in groups :
                   \E a \in OfType(objects, "threat-actor") :
                   \E m \in OfType(objects, "malware") :
                   \E u \in Uses(objects) :
                       /\ objects[a].id = "threat-actor--" \o hash_string(g)
                       /\ objects[m].id = "malware--" \o hash_string(g \o "-malware")
                       /\ objects[u].source_ref = objects[a].id
                       /\ objects[u].target_ref = objects[m].id
            /\ \A k \in 1..Len(victims) :
                   \E t \in OfType(objects, "relationship") :
                       /\ objects[t].relationship_type = "targets"
                       /\ objects[t].id = "relationship--" \o hash_string(
                              GroupName(victims[k]) \o "-targets-" \o victims[k].domain)
                       /\ objects[t].source_ref
                             = "threat-actor--" \o hash_string(GroupName(victims[k]))
                       /\ objects[t].target_ref
                             = "identity--" \o hash_string(victims[k].domain)
            /\ Cardinality({i \in OfType(objects, "relationship") :
                                objects[i].relationship_type = "targets"}) = Len(victims)

\* a pass over two victims of one group, spelled in two ways, and of two
\* domains: one threat-actor, two "targets" relationships
WitnessOneActorTwoVictims ==
    \E p \in 1..Len(feeds) :
        /\ Len(feeds[p].victims) = 2
        /\ feeds[p].victims[1].group = "lockbit"
        /\ feeds[p].victims[2].group = "LockBit"
        /\ feeds[p].victims[1].domain # feeds[p].victims[2].domain
        /\ Cardinality(OfType(feeds[p].objects, "threat-actor")) = 1
        /\ Cardinality({i \in OfType(feeds[p].objects, "relationship") :
                            feeds[p].objects[i].relationship_type = "targets"}) = 2

----------------------------------------------------------------------------
(* Two runs against the same group that overlap in time.  Each run calls   *)
(* update_victim_database once; the call reads the history file, merges    *)
(* its batch in memory, opens the file for writing (which empties it) and  *)
(* dumps the merged history.  The steps of the two calls interleave as the *)
(* operating system schedules the two processes.                           *)

Runs == {1, 2}

\* a run that reached update_victim_database with its batch
Calling(victims) ==
    [pc |-> "start", victims |-> victims, history |-> <<>>, merged |-> <<>>]

InitOverlap ==
    /\ history_file \in PersistedHistories
    /\ last_batch = <<>>
    /\ new_victims = <<>>
    /\ updated_victims = <<>>
    /\ observed = 0
    /\ clock = 1
    /\ mirrors_file = [state |-> "missing", data |-> <<>>]
    /\ mirrors = <<>>
    /\ pc = "idle" /\ run = Idle("tracker") /\ trace = <<>>
    /\ NoParsers
    /\ NoFeeds
    /\ NoOutput
    /\ overlap \in [Runs -> {Calling(victims) : victims \in Batches(1)}]

OverlapUnchanged ==
    UNCHANGED <<last_batch, new_victims, updated_victims, observed, ledgervars,
                runvars, parservars, feedvars, output_file>>

\* lines 355-359: open(..., 'r') and json.load, or [] when that fails
LoadStep ==
    \E r \in Runs :
        /\ overlap[r].pc = "start"
        /\ overlap' = [overlap EXCEPT ![r].pc = "loaded",
                                      ![r].history = LoadHistory(history_file)]
        /\ UNCHANGED <<history_file, clock>>
        /\ OverlapUnchanged

\* lines 361-401: the loop over the batch, then open(..., 'w'), which
\* truncates the file
OpenStep ==
    \E r \in Runs :
        /\ overlap[r].pc = "loaded"
        /\ overlap' =
               [overlap EXCEPT
                   ![r].pc = "writing",
                   ![r].merged =
                       MergeLoop(overlap[r].history, overlap[r].victims,
                                 Len(overlap[r].victims), clock).history]
        /\ history_file' = [state |-> "unparsable", victims |-> <<>>]
        /\ clock' = clock + 1
        /\ OverlapUnchanged

\* line 402: json.dump(history, f) and the close of the file
DumpStep ==
    \E r \in Runs :
        /\ overlap[r].pc = "writing"
        /\ overlap' = [overlap EXCEPT ![r].pc = "done"]
        /\ history_file' = [state |-> "ok", victims |-> overlap[r].merged]
        /\ UNCHANGED clock
        /\ OverlapUnchanged

NextOverlap == LoadStep \/ OpenStep \/ DumpStep

SpecOverlap == InitOverlap /\ [][NextOverlap]_vars

\* the persisted history holds the record with everything that was merged
\* into it: a record of the same domain with at least its status_history
Persisted(record) ==
    \E i \in 1..Len(history_file.victims) :
        /\ history_file.victims[i].domain = record.domain
        /\ Range(record.status_history) \subseteq
               Range(history_file.victims[i].status_history)

\* C17: no lost update between runs of the same group.  When two
\* overlapping runs have both finished their read-merge-write, the
\* persisted history contains every domain, and every status_history
\* entry, of the history either run merged.
NoLostUpdate ==
    (\A r \in Runs : overlap[r].pc = "done") =>
        /\ history_file.state = "ok"
        /\ \A r \in Runs : \A i \in 1..Len(overlap[r].merged) :
               Persisted(overlap[r].merged[i])

====
